---- MODULE Spec2Model ----
(***************************************************************************)
(* Devil Muse server (src/index.js): one POST /devil-pov request handled   *)
(* by the Express route, its action handlers, the four Wix CMS context     *)
(* fetchers and the two OpenRouter callers.  The server keeps no state     *)
(* between requests, so the model follows one request from arrival to the  *)
(* end of the route handler, with the request body, the process            *)
(* configuration and the outcome of every outbound call chosen freely.     *)
(***************************************************************************)
EXTENDS Integers, Sequences, FiniteSets, TLC

(***************************************************************************)
(* Bounds of the model.                                                    *)
(***************************************************************************)
\* longest tag list a request carries
MaxTags == 1

\* most markers in the array a completion carries
MaxMarkers == 2

\* most fields of a marker
MaxFields == 2

\* longest chat history a request carries
MaxHistory == 80

\* most chat records a query of the CMS gives
MaxSessions == 3

\* most chapter records a query of the CMS gives
MaxChapters == 2

\* longest chapter the CMS holds
MaxBody == 1600

(***************************************************************************)
(* JavaScript values that reach the code as request fields.  A string is   *)
(* a sequence of symbols (a symbol stands for one character, or for a      *)
(* whole word where the code never looks inside it), an array of tags a    *)
(* sequence of tag names.                                                  *)
(***************************************************************************)
Undefined == [t |-> "undefined", v |-> <<>>]
Null == [t |-> "null", v |-> <<>>]
Str(s) == [t |-> "string", v |-> s]
Arr(a) == [t |-> "array", v |-> a]

\* !x
Falsy(x) ==
    \/ x.t \in {"undefined", "null"}
    \/ x.t = "string" /\ x.v = <<>>

\* x.length of a string or an array
JsLength(x) == Len(x.v)

\* Array.isArray(x) ? x[0] : x
FirstTag(x) ==
    IF x.t = "array"
    THEN (IF Len(x.v) > 0 THEN Str(<<x.v[1]>>) ELSE Undefined)
    ELSE x

\* x?.length > 0
HasLength(x) == x.t \in {"string", "array"} /\ Len(x.v) > 0

IsSpace(c) == c = " "

RECURSIVE TrimLeft(_)
TrimLeft(s) ==
    IF s # <<>> /\ IsSpace(Head(s)) THEN TrimLeft(Tail(s)) ELSE s

RECURSIVE TrimRight(_)
TrimRight(s) ==
    IF s # <<>> /\ IsSpace(s[Len(s)]) THEN TrimRight(SubSeq(s, 1, Len(s) - 1)) ELSE s

\* String.prototype.trim
Trim(s) == TrimRight(TrimLeft(s))

\* !x || x.trim().length === 0, for x absent or a string
NoText(x) == Falsy(x) \/ Len(Trim(x.v)) = 0

Min(a, b) == IF a < b THEN a ELSE b
Max(a, b) == IF a > b THEN a ELSE b

\* a slice that keeps the first k elements
SliceFromStart(s, k) == SubSeq(s, 1, Min(k, Len(s)))

\* s.slice(-k) for k > 0: the last k elements, all of them when there are fewer
SliceFromEnd(s, k) == SubSeq(s, Max(1, Len(s) - k + 1), Len(s))

\* a cut that keeps the end of the string
SubstringFromEnd(s, from, to) == SliceFromEnd(s, to - from)

\* s.substring(from, to) for 0 <= from <= to
Substring(s, from, to) == SubSeq(s, from + 1, Min(to, Len(s)))

(***************************************************************************)
(* JSON texts.  A text is a sequence of symbols; the texts the code meets  *)
(* are the literal null and arrays of objects.  An object is written       *)
(* "{" w1 ... wn "}", its value the sequence of the symbols w1 ... wn (the *)
(* content of its fields, in order); separators are left out.              *)
(***************************************************************************)
Brackets == {"[", "]", "{", "}"}

RECURSIVE WriteObjects(_)
WriteObjects(objs) ==
    IF objs = <<>> THEN <<>>
    ELSE <<"{">> \o Head(objs) \o <<"}">> \o WriteObjects(Tail(objs))

\* JSON.stringify of an array of objects
Stringify(objs) == <<"[">> \o WriteObjects(objs) \o <<"]">>

\* the objects written in s, one after the other
RECURSIVE ParseObjects(_)
ParseObjects(s) ==
    IF s = <<>> THEN [ok |-> TRUE, value |-> <<>>]
    ELSE IF s[1] # "{" \/ ~\E j \in 2..Len(s) : s[j] = "}"
    THEN [ok |-> FALSE, value |-> <<>>]
    ELSE LET close == CHOOSE j \in 2..Len(s) :
                         s[j] = "}" /\ \A k \in 2..(j - 1) : s[k] # "}"
             fields == SubSeq(s, 2, close - 1)
             rest == ParseObjects(SubSeq(s, close + 1, Len(s)))
         IN  IF (\E k \in 1..Len(fields) : fields[k] \in Brackets) \/ ~rest.ok
             THEN [ok |-> FALSE, value |-> <<>>]
             ELSE [ok |-> TRUE, value |-> <<fields>> \o rest.value]

\* JSON.parse: an array of objects, null, or a SyntaxError
JsonParse(s) ==
    CASE s = <<"null">> -> [ok |-> TRUE, value |-> Null]
      [] /\ Len(s) >= 2
         /\ s[1] = "["
         /\ s[Len(s)] = "]"
         /\ ParseObjects(SubSeq(s, 2, Len(s) - 1)).ok ->
           [ok |-> TRUE, value |-> Arr(ParseObjects(SubSeq(s, 2, Len(s) - 1)).value)]
      [] OTHER -> [ok |-> FALSE, value |-> Undefined]

\* obj.field of a parsed object, field the k-th it is written with
Field(obj, k) == IF k <= Len(obj) THEN obj[k] ELSE "undefined"

(***************************************************************************)
(* Request bodies.                                                         *)
(***************************************************************************)
Word(w) == Str(<<w>>)

NamedActions ==
    {"unhinge", "unleash", "noMercy", "invoke", "intensify", "characterChat",
     "devilPOV", "overuse_scanner", "pacing_analyzer", "sentence_mechanics",
     "dialogue_critic", "ai_critic", "structural_check", "tag_generation"}

\* the action field: absent, null, the empty string, a named action, another word
ActionValues ==
    {Undefined, Null, Str(<<>>), Word("summon")} \cup {Word(a) : a \in NamedActions}

\* a text field: absent, empty, blank, or with content
TextValues == {Undefined, Str(<<>>), Str(<<" ">>), Str(<<"a">>)}

Tags == {"@A"}

TagLists == UNION {[1..n -> Tags] : n \in 0..MaxTags}

\* a tag field: absent, null, the empty string, or a list of tags
TagValues == {Undefined, Null, Str(<<>>)} \cup {Arr(l) : l \in TagLists}

PersonaValues == {Undefined, Word("cold_editor"), Word("market_hawk"), Word("oracle")}

\* the type field of tag_generation
TypeValues == {Undefined, Word("character"), Word("story")}

TagFields == {"characterTags", "storyTags", "catalystTags"}

EmptyBody ==
    [action |-> Undefined, persona |-> Undefined,
     chapterContent |-> Undefined, selectedText |-> Undefined,
     userPrompt |-> Undefined, userMessage |-> Undefined,
     previousChapter |-> Undefined, text |-> Undefined, name |-> Undefined,
     type |-> Undefined, chatHistory |-> Undefined,
     characterTags |-> Undefined, storyTags |-> Undefined,
     catalystTags |-> Undefined]

(***************************************************************************)
(* The route: const { action = 'devilPOV' } = req.body, then the switch.   *)
(***************************************************************************)
DefaultAction(a) == IF a.t = "undefined" THEN Word("devilPOV") ELSE a

\* the case clauses in source order; "default" marks the default clause
SwitchCases ==
    << <<"unhinge", "handleUnhinge">>,
       <<"unleash", "handleUnleash">>,
       <<"noMercy", "handleNoMercy">>,
       <<"invoke", "handleInvoke">>,
       <<"intensify", "handleIntensify">>,
       <<"characterChat", "handleCharacterChat">>,
       <<"devilPOV", "handleDevilPOV">>,
       <<"default", "handleDevilPOV">>,
       <<"overuse_scanner", "handleOveruseScanner">>,
       <<"pacing_analyzer", "handlePacingAnalyzer">>,
       <<"sentence_mechanics", "handleSentenceMechanics">>,
       <<"dialogue_critic", "handleDialogueCritic">>,
       <<"ai_critic", "handleAICritic">>,
       <<"structural_check", "handleStructuralCheck">>,
       <<"tag_generation", "handleTagGeneration">> >>

DefaultClause == CHOOSE i \in 1..Len(SwitchCases) : SwitchCases[i][1] = "default"

\* a switch that stops at the default clause when it meets it
SwitchStopsAtDefault(a) ==
    LET hit == {i \in 1..Len(SwitchCases) :
                   \/ SwitchCases[i][1] = "default"
                   \/ a.v = <<SwitchCases[i][1]>>}
        first == CHOOSE i \in hit : \A j \in hit : i <= j
    IN  SwitchCases[first][2]

\* switch (action): every case label is compared, in order, before the
\* default clause is taken, wherever the default clause stands
Switch(a) ==
    LET hit == {i \in 1..Len(SwitchCases) :
                   /\ i # DefaultClause
                   /\ a.v = <<SwitchCases[i][1]>>}
    IN  IF hit # {}
        THEN SwitchCases[CHOOSE i \in hit : \A j \in hit : i <= j][2]
        ELSE SwitchCases[DefaultClause][2]

ContextHandlers ==
    {"handleUnleash", "handleInvoke", "handleCharacterChat", "handleDevilPOV"}

AnalysisHandlers ==
    {"handleOveruseScanner", "handlePacingAnalyzer", "handleSentenceMechanics",
     "handleDialogueCritic", "handleAICritic", "handleStructuralCheck"}

\* the presence check each handler opens with: the message of the error it
\* throws, or "" when it throws none
Validate(h, b) ==
    CASE h = "handleUnhinge" ->
           IF NoText(b.chapterContent) THEN "No content to unhinge" ELSE ""
      [] h = "handleUnleash" ->
           IF NoText(b.chapterContent) THEN "No content to continue from" ELSE ""
      [] h = "handleNoMercy" ->
           IF NoText(b.selectedText) THEN "No text selected for rewrite" ELSE ""
      [] h = "handleInvoke" -> ""
      [] h = "handleIntensify" ->
           IF NoText(b.selectedText) THEN "No text selected to intensify" ELSE ""
      [] h = "handleCharacterChat" ->
           IF NoText(b.userMessage) THEN "No message provided" ELSE ""
      [] h = "handleDevilPOV" ->
           IF Falsy(b.previousChapter) THEN "No chapter provided" ELSE ""
      [] h = "handleAICritic" ->
           IF NoText(b.text) THEN "No text provided for critique" ELSE ""
      [] h = "handleTagGeneration" ->
           IF NoText(b.name) THEN "No name provided for tag generation" ELSE ""
      [] OTHER ->
           IF NoText(b.text) THEN "No text provided for analysis" ELSE ""

(***************************************************************************)
(* The CMS query adapter and the four context fetchers.                    *)
(***************************************************************************)
Fetchers ==
    {"getCharacterContext", "getChatHistory", "getRelatedChapters", "getCatalystIntel"}

\* how one query to the store can end: fetch rejects, a non-2xx status, a body
\* that is not JSON, a result without records, a result with a record
CmsOutcomes == {"netErr", "nonOk", "badJson", "noItems", "found"}

CmsFailures == {"netErr", "nonOk", "badJson"}

Collection(f) ==
    CASE f = "getCharacterContext" -> "Characters"
      [] f = "getChatHistory" -> "ChatWithCharacters"
      [] f = "getRelatedChapters" -> "BackupChapters"
      [] f = "getCatalystIntel" -> "Catalyst"

Limit(f) ==
    CASE f = "getCharacterContext" -> 1
      [] f = "getChatHistory" -> 5
      [] f = "getRelatedChapters" -> 3
      [] f = "getCatalystIntel" -> 1

\* item.data of the record the store holds in a collection: the fields the
\* fetchers read.  A chat record keeps its message log serialized in chatBox,
\* a message being an object of a type and a text.
StoredItem(collection) ==
    CASE collection = "Characters" -> [chatbot |-> "personality"]
      [] collection = "ChatWithCharacters" ->
           [chatBox |-> Str(Stringify(<< <<"user", "hello">>, <<"bot", "welcome">> >>))]
      [] collection = "BackupChapters" ->
           [title |-> Str(<<"Chapter One">>), chapterContent |-> Str(<<"c", "h">>)]
      [] collection = "Catalyst" -> [title |-> "catalyst"]

\* the record lists a query may find, collection by collection: here the one
\* record of each collection
Stored ==
    [collection \in {"Characters", "ChatWithCharacters", "BackupChapters", "Catalyst"} |->
       {<<StoredItem(collection)>>}]

\* a query adapter that lets a rejected fetch escape
QueryRethrows(outcome, dataItems) ==
    [threw |-> outcome = "netErr",
     items |-> IF outcome = "found" THEN dataItems ELSE <<>>]

\* queryWixCMS: the whole body is inside try/catch, so a rejected fetch, a
\* non-2xx status and an unreadable body all return {items: []}; a readable
\* body gives data.dataItems || []
queryWixCMS(outcome, dataItems) ==
    [threw |-> FALSE,
     items |-> IF outcome = "found" THEN dataItems ELSE <<>>]

\* what a fetcher returns when it finds nothing
EmptyDefault(f) ==
    IF f \in {"getCharacterContext", "getCatalystIntel"} THEN "" ELSE <<>>

\* the guards of getCharacterContext, getRelatedChapters, getCatalystIntel
EmptyGuard(x) == Falsy(x) \/ JsLength(x) = 0

\* the guard that opens a fetcher: TRUE when it returns its default at once
ReturnsAtOnce(f, x) ==
    IF f = "getChatHistory" THEN Falsy(x) ELSE EmptyGuard(x)

\* content: (item.data?.chapterContent || "").substring(0, 1500)
ChapterLimit == 1500

\* getChatHistory, lines 151-163: one record made into a session.  A chatBox
\* that is a string is parsed, anything else is taken as it is; a parse that
\* throws is caught for this record, and a log that is absent or null gives
\* no messages
DecodeSession(item) ==
    LET chatBox == item.chatBox
        parsed == IF chatBox.t = "string" THEN JsonParse(chatBox.v)
                  ELSE [ok |-> TRUE, value |-> chatBox]
    IN  IF ~parsed.ok \/ Falsy(parsed.value)
        THEN [messages |-> <<>>]
        ELSE [messages |-> parsed.value.v]

\* a decoding with one try around the whole map: a record that fails to parse
\* takes the list with it
DecodeAll(items) ==
    IF \E i \in 1..Len(items) :
          items[i].chatBox.t = "string" /\ ~JsonParse(items[i].chatBox.v).ok
    THEN <<>>
    ELSE [i \in 1..Len(items) |-> DecodeSession(items[i])]

\* result.items.map(...) of getChatHistory
Sessions(items) == [i \in 1..Len(items) |-> DecodeSession(items[i])]

\* getRelatedChapters, lines 187-190: one record made into a chapter
ChapterOf(item) ==
    [title |-> IF Falsy(item.title) THEN <<"Untitled">> ELSE item.title.v,
     content |-> Substring(IF Falsy(item.chapterContent) THEN <<>>
                           ELSE item.chapterContent.v, 0, ChapterLimit)]

\* what a fetcher makes of the records of its query
Extract(f, items) ==
    IF Len(items) > 0
    THEN CASE f = "getCharacterContext" -> items[1].chatbot
           [] f = "getCatalystIntel" -> items[1].title
           [] f = "getChatHistory" -> Sessions(items)
           [] f = "getRelatedChapters" ->
                [i \in 1..Len(items) |-> ChapterOf(items[i])]
    ELSE EmptyDefault(f)

\* the fetches a handler starts, in the order of its Promise.all, each with
\* the request field it is given
FetchPlan(h) ==
    CASE h \in {"handleUnleash", "handleInvoke"} ->
           << <<"getCharacterContext", "characterTags">>,
              <<"getCatalystIntel", "catalystTags">> >>
      [] h = "handleCharacterChat" ->
           << <<"getCharacterContext", "characterTags">>,
              <<"getChatHistory", "characterTags">>,
              <<"getRelatedChapters", "storyTags">>,
              <<"getCatalystIntel", "characterTags">> >>
      [] h = "handleDevilPOV" ->
           << <<"getCharacterContext", "characterTags">>,
              <<"getChatHistory", "characterTags">>,
              <<"getRelatedChapters", "storyTags">>,
              <<"getCatalystIntel", "catalystTags">> >>
      [] OTHER -> <<>>

Planned(h) == {FetchPlan(h)[i][1] : i \in 1..Len(FetchPlan(h))}

TagField(b, name) ==
    CASE name = "characterTags" -> b.characterTags
      [] name = "storyTags" -> b.storyTags
      [] name = "catalystTags" -> b.catalystTags

\* the argument a handler passes to fetcher f
TagArg(h, b, f) ==
    LET i == CHOOSE k \in 1..Len(FetchPlan(h)) : FetchPlan(h)[k][1] = f
    IN  TagField(b, FetchPlan(h)[i][2])

\* a fetch: where it stands, whether it queried the CMS, whether the query
\* failed, the records the query gave, the value the fetcher returned
IdleFetch ==
    [st |-> "idle", queried |-> FALSE, failed |-> FALSE, items |-> <<>>, val |-> ""]

(***************************************************************************)
(* Prompt assembly.  A message content is a sequence of parts: a fixed     *)
(* instruction block is one part, named after its handler.                 *)
(***************************************************************************)
\* ${x} in a template literal
Interpolate(x) == IF x.t = "string" THEN x.v ELSE <<x.t>>

\* if (text) prompt += TITLE, text
Section(title, text) == IF text # "" THEN <<title, text>> ELSE <<>>

\* relatedChapters.forEach(ch => prompt += [ch.title], ch.content)
RECURSIVE ChapterLines(_)
ChapterLines(chapters) ==
    IF chapters = <<>> THEN <<>>
    ELSE Head(chapters).title \o Head(chapters).content \o ChapterLines(Tail(chapters))

\* if (relatedChapters.length > 0) prompt += title, then the chapters
ChapterSection(title, chapters) ==
    IF Len(chapters) > 0 THEN <<title>> \o ChapterLines(chapters) ELSE <<>>

\* session.messages?.slice(-5)
SessionTail == 5

\* msgs.forEach(msg => prompt += (msg.type === 'user' ? 'AUTHOR' : 'YOU'), msg.text)
RECURSIVE MessageLines(_)
MessageLines(msgs) ==
    IF msgs = <<>> THEN <<>>
    ELSE <<IF Field(Head(msgs), 1) = "user" THEN "AUTHOR" ELSE "YOU",
           Field(Head(msgs), 2)>> \o MessageLines(Tail(msgs))

\* chatHistory.forEach((session, idx) => prompt += [Session idx + 1], then
\* the last five messages of the session), from session number idx on
RECURSIVE SessionLines(_, _)
SessionLines(sessions, idx) ==
    IF sessions = <<>> THEN <<>>
    ELSE <<"Session", ToString(idx)>>
           \o MessageLines(SliceFromEnd(Head(sessions).messages, SessionTail))
           \o SessionLines(Tail(sessions), idx + 1)

\* if (chatHistory.length > 0) prompt += title, then the sessions
SessionSection(title, sessions) ==
    IF Len(sessions) > 0 THEN <<title>> \o SessionLines(sessions, 1) ELSE <<>>

\* tags?.length > 0 ? label + tags.join(', ') : ''
Traits(label, tags) == IF HasLength(tags) THEN <<label>> \o tags.v ELSE <<>>

Message(role, content) == [role |-> role, content |-> content]

\* ...(chatHistory || []).slice(-70)
HistoryLimit == 70

PersonaKeys == {"cold_editor", "market_hawk", "literary_judge", "dark_romance_gatekeeper"}

\* personas[persona] || personas.cold_editor
SelectedPersona(persona) ==
    IF persona.t = "string" /\ Len(persona.v) = 1 /\ persona.v[1] \in PersonaKeys
    THEN persona.v[1]
    ELSE "cold_editor"

SystemPrompt(h, b, ctx) ==
    CASE h = "handleUnleash" ->
           <<"sys:unleash">>
             \o Section("CHARACTER CONTEXT", ctx["getCharacterContext"])
             \o Section("NARRATIVE CATALYST", ctx["getCatalystIntel"])
      [] h = "handleInvoke" ->
           <<"sys:invoke">> \o Interpolate(b.userPrompt)
             \o Section("CHARACTER CONTEXT", ctx["getCharacterContext"])
             \o Section("NARRATIVE CATALYST", ctx["getCatalystIntel"])
      [] h = "handleCharacterChat" ->
           <<"sys:characterChat">>
             \o Section("YOUR CORE PERSONALITY", ctx["getCharacterContext"])
             \o Traits("Your character traits", b.characterTags)
             \o Traits("Story tags", b.storyTags)
             \o Section("NARRATIVE CATALYST", ctx["getCatalystIntel"])
             \o ChapterSection("RELATED CHAPTERS YOU APPEAR IN", ctx["getRelatedChapters"])
      [] h = "handleDevilPOV" ->
           <<"sys:devilPOV">>
             \o Traits("Character traits", b.characterTags)
             \o Traits("Story", b.storyTags)
             \o Section("YOUR CORE PERSONALITY", ctx["getCharacterContext"])
             \o Section("NARRATIVE CATALYST", ctx["getCatalystIntel"])
             \o ChapterSection("RELATED CHAPTERS FROM THIS STORY", ctx["getRelatedChapters"])
             \o SessionSection("CONVERSATIONS THE AUTHOR HAS HAD WITH YOU", ctx["getChatHistory"])
             \o <<"Write ONLY the chapter from your POV">>

\* the messages a handler passes to its caller
BuildMessages(h, b, ctx) ==
    CASE h = "handleUnhinge" ->
           << Message("system", <<"sys:unhinge">>),
              Message("user", <<"user:unhinge">> \o Interpolate(b.chapterContent)) >>
      [] h = "handleUnleash" ->
           << Message("system", SystemPrompt(h, b, ctx)),
              Message("user", <<"user:unleash">> \o Interpolate(b.chapterContent)) >>
      [] h = "handleNoMercy" ->
           << Message("system", <<"sys:noMercy">>),
              Message("user", <<"user:noMercy">> \o Interpolate(b.selectedText)) >>
      [] h = "handleInvoke" ->
           << Message("system", SystemPrompt(h, b, ctx)),
              Message("user", Interpolate(b.userPrompt)) >>
      [] h = "handleIntensify" ->
           << Message("system", <<"sys:intensify">>),
              Message("user", <<"user:intensify">> \o Interpolate(b.selectedText)) >>
      [] h = "handleCharacterChat" ->
           << Message("system", SystemPrompt(h, b, ctx)) >>
             \o SliceFromEnd(IF Falsy(b.chatHistory) THEN <<>> ELSE b.chatHistory.v,
                             HistoryLimit)
             \o << Message("user", Interpolate(b.userMessage)) >>
      [] h = "handleDevilPOV" ->
           << Message("system", SystemPrompt(h, b, ctx)),
              Message("user", <<"user:devilPOV">> \o Interpolate(b.previousChapter)) >>
      [] h = "handleAICritic" ->
           << Message("user", <<SelectedPersona(b.persona)>> \o Interpolate(b.text)) >>
      [] OTHER ->
           << Message("user", <<h>> \o Interpolate(b.text)) >>

\* what stops a handler between its presence check and its call to the model:
\* the message of the error thrown, or "" when nothing is thrown.
\* handleAICritic calls persona.replace on whatever persona is; handleTagGeneration
\* checks the credential itself and then reads existingTags, declared nowhere
PromptError(h, b, key) ==
    CASE h = "handleAICritic" /\ b.persona.t # "string" ->
           "TypeError: Cannot read properties of undefined (reading 'replace')"
      [] h = "handleTagGeneration" /\ ~key -> "No API key configured"
      [] h = "handleTagGeneration" /\ key ->
           "ReferenceError: existingTags is not defined"
      [] OTHER -> ""

(***************************************************************************)
(* The two callers.                                                        *)
(***************************************************************************)
PRIMARY_MODEL == "deepseek/deepseek-chat-v3.1"
BACKUP_MODEL == "deepseek/deepseek-v3.2"
TERTIARY_MODEL == "mistralai/mistral-large"
ANALYSIS_MODEL == "openai/gpt-3.5-turbo"

\* const models = [PRIMARY_MODEL, BACKUP_MODEL, TERTIARY_MODEL]
models == <<PRIMARY_MODEL, BACKUP_MODEL, TERTIARY_MODEL>>

\* every handler on the fallback caller
CallerAlwaysCallAI(h) == "callAI"

\* the caller a handler delegates to
CallerOf(h) ==
    IF h \in AnalysisHandlers THEN "callClaudeForAnalysis" ELSE "callAI"

\* temperature (in hundredths) and max_tokens of the handler's call
CallParams(h) ==
    CASE h = "handleUnhinge" -> [temperature |-> 90, maxTokens |-> 3000]
      [] h = "handleUnleash" -> [temperature |-> 85, maxTokens |-> 2000]
      [] h = "handleNoMercy" -> [temperature |-> 90, maxTokens |-> 1500]
      [] h = "handleInvoke" -> [temperature |-> 85, maxTokens |-> 800]
      [] h = "handleIntensify" -> [temperature |-> 80, maxTokens |-> 1500]
      [] h = "handleCharacterChat" -> [temperature |-> 85, maxTokens |-> 500]
      [] h = "handleDevilPOV" -> [temperature |-> 90, maxTokens |-> 2500]
      [] h \in {"handleOveruseScanner", "handlePacingAnalyzer"} ->
           [temperature |-> 30, maxTokens |-> 3000]
      [] h = "handleAICritic" -> [temperature |-> 30, maxTokens |-> 3500]
      [] OTHER -> [temperature |-> 30, maxTokens |-> 2500]

\* how one chat-completion request can end: fetch rejects, a non-2xx status, a
\* 2xx status whose body gives no choices[0].message, a 2xx status with a
\* completion
LlmOutcomes == {"netErr", "nonOk", "okNoChoices", "ok"}

\* message.content of a completion: prose, a fenced JSON array of one marker,
\* the JSON text null, or no content at all
Contents ==
    {Str(<<"prose">>),
     Str(<<"FENCE_JSON">> \o Stringify(<< <<"marker">> >>) \o <<"FENCE">>),
     Str(<<"null">>), Null}

\* a loop that asks the same model again
RetrySame(i) == i

\* a loop that gives up after the first failure
GiveUp(i) == 0

\* the for loop of callAI: the index of the model asked after the attempt on
\* models[i] has failed, 0 when none is left
NextCandidate(i) == IF i < Len(models) THEN i + 1 ELSE 0

\* a test of the response that takes no response for a success
NeverSucceeds(o) == FALSE

\* whether an attempt returns from its caller: response.ok held and the body
\* gave data.choices[0].message.content without an exception
Succeeds(o) == o = "ok"

\* response.replace(/FENCE_JSON|FENCE/g, '').trim(), FENCE the three-backquote fence
StripFences(s) ==
    Trim(SelectSeq(s, LAMBDA tok : tok \notin {"FENCE_JSON", "FENCE"}))

ParseErrorOf(h) ==
    CASE h = "handleOveruseScanner" -> "Failed to parse analysis response"
      [] h = "handlePacingAnalyzer" -> "Failed to parse pacing analysis"
      [] h = "handleSentenceMechanics" -> "Failed to parse mechanics analysis"
      [] h = "handleDialogueCritic" -> "Failed to parse dialogue analysis"
      [] h = "handleAICritic" -> "Failed to parse critic response"
      [] h = "handleStructuralCheck" -> "Failed to parse structural analysis"

\* what the handler does with the caller's return value: the text handlers
\* return it as it is, the analysis handlers strip the fences and parse inside
\* a try whose catch throws the handler's parse error
HandlerReturn(h, content) ==
    IF h \in AnalysisHandlers
    THEN IF content.t = "string" /\ JsonParse(StripFences(content.v)).ok
         THEN [err |-> "", value |-> JsonParse(StripFences(content.v)).value]
         ELSE [err |-> ParseErrorOf(h), value |-> Undefined]
    ELSE [err |-> "", value |-> content]

(***************************************************************************)
(* One request through the route.                                          *)
(***************************************************************************)
VARIABLES
    body,       \* req.body
    apiKey,     \* whether process.env.OPENROUTER_API_KEY is set
    pc,         \* where the route handler stands
    handler,    \* the handler the switch called, "" before the switch
    args,       \* the body the handler was called with
    fetch,      \* the context fetches of the handler
    cmsLog,     \* the CMS queries issued, in order
    messages,   \* the messages passed to the caller
    candidate,  \* callAI: the index in models of the attempt in flight
    llmLog,     \* the chat-completion requests issued, in order
    llmOut,     \* how the finished chat-completion requests ended, in order,
                \* each with the content of its completion
    result,     \* the handler's return value
    returned,   \* whether the handler returned
    err,        \* the message of the error caught by the route, "" if none
    responses,  \* the HTTP responses written for the request, in order
    escaped     \* the error that left the route handler uncaught, "" if none

vars ==
    <<body, apiKey, pc, handler, args, fetch, cmsLog, messages, candidate,
      llmLog, llmOut, result, returned, err, responses, escaped>>

\* the fields a client sends with an action
FieldsSent(a) ==
    LET name == IF a.t = "string" /\ Len(a.v) = 1 /\ a.v[1] \in NamedActions
                THEN a.v[1] ELSE "devilPOV"
    IN  CASE name = "unhinge" -> [text |-> "chapterContent", tags |-> {}]
          [] name = "unleash" ->
               [text |-> "chapterContent", tags |-> {"characterTags", "catalystTags"}]
          [] name \in {"noMercy", "intensify"} -> [text |-> "selectedText", tags |-> {}]
          [] name = "invoke" ->
               [text |-> "userPrompt", tags |-> {"characterTags", "catalystTags"}]
          [] name = "characterChat" ->
               [text |-> "userMessage", tags |-> {"characterTags", "storyTags"}]
          [] name = "devilPOV" ->
               [text |-> "previousChapter", tags |-> TagFields]
          [] name = "tag_generation" -> [text |-> "name", tags |-> {}]
          [] OTHER -> [text |-> "text", tags |-> {}]

\* the request bodies of the model: an action, the text field and the tag
\* fields sent with it, a persona with ai_critic, a type with tag_generation
Requests ==
    UNION {
      LET sent == FieldsSent(a) IN
      { [f \in DOMAIN EmptyBody |->
            CASE f = "action" -> a
              [] f = sent.text -> txt
              [] f \in sent.tags -> tg[f]
              [] f = "persona" -> per
              [] f = "type" -> typ
              [] OTHER -> Undefined] :
          txt \in TextValues,
          tg \in [sent.tags -> TagValues],
          per \in IF a = Word("ai_critic") THEN PersonaValues ELSE {Undefined},
          typ \in IF a = Word("tag_generation") THEN TypeValues ELSE {Undefined} }
      : a \in ActionValues }

\* a request has arrived and nothing of it has run
Arrived(bodies, keys) ==
    /\ body \in bodies
    /\ apiKey \in keys
    /\ pc = "received"
    /\ handler = ""
    /\ args = EmptyBody
    /\ fetch = [f \in Fetchers |-> IdleFetch]
    /\ cmsLog = <<>>
    /\ messages = <<>>
    /\ candidate = 0
    /\ llmLog = <<>>
    /\ llmOut = <<>>
    /\ result = Undefined
    /\ returned = FALSE
    /\ err = ""
    /\ responses = <<>>
    /\ escaped = ""

Init == Arrived(Requests, BOOLEAN)

\* lines 229-298: the default of action, action.toUpperCase(), the switch
Route ==
    /\ pc = "received"
    /\ LET a == DefaultAction(body.action) IN
       IF a.t # "string"
       THEN /\ err' = "TypeError: Cannot read properties of null (reading 'toUpperCase')"
            /\ pc' = "catch"
            /\ UNCHANGED <<handler, args>>
       ELSE /\ handler' = Switch(a)
            /\ args' = body
            /\ pc' = "handler"
            /\ err' = err
    /\ UNCHANGED <<body, apiKey, fetch, cmsLog, messages, candidate, llmLog, llmOut,
                   result, returned, responses, escaped>>

\* the query a fetcher issues
Query(f, x) == [collection |-> Collection(f), limit |-> Limit(f), tag |-> FirstTag(x)]

\* the handler up to its first await: the presence check, then the calls of
\* Promise.all, each fetcher running to its own first await
HandlerStart ==
    /\ pc = "handler"
    /\ LET v == Validate(handler, args)
           plan == FetchPlan(handler)
           issued == SelectSeq(plan,
                        LAMBDA e : ~ReturnsAtOnce(e[1], TagField(args, e[2])))
       IN
       IF v # ""
       THEN /\ err' = v
            /\ pc' = "catch"
            /\ UNCHANGED <<fetch, cmsLog>>
       ELSE IF handler \in ContextHandlers
       THEN /\ fetch' =
                 [f \in Fetchers |->
                    IF f \notin Planned(handler) THEN fetch[f]
                    ELSE IF ReturnsAtOnce(f, TagArg(handler, args, f))
                    THEN [st |-> "done", queried |-> FALSE, failed |-> FALSE,
                          items |-> <<>>, val |-> EmptyDefault(f)]
                    ELSE [st |-> "pending", queried |-> TRUE, failed |-> FALSE,
                          items |-> <<>>, val |-> ""]]
            /\ cmsLog' = cmsLog \o
                 [i \in 1..Len(issued) |->
                    Query(issued[i][1], TagField(args, issued[i][2]))]
            /\ pc' = "fetching"
            /\ err' = err
       ELSE /\ pc' = "prompt"
            /\ UNCHANGED <<fetch, cmsLog, err>>
    /\ UNCHANGED <<body, apiKey, handler, args, messages, candidate, llmLog, llmOut,
                   result, returned, responses, escaped>>

\* one pending CMS query ends and its fetcher runs to its return; store[c]
\* is the set of record lists a query of collection c may find
CmsCompleteFrom(store) ==
    /\ pc = "fetching"
    /\ \E f \in Fetchers, o \in CmsOutcomes :
       \E dataItems \in IF o = "found" THEN store[Collection(f)] ELSE {<<>>} :
         /\ fetch[f].st = "pending"
         /\ LET r == queryWixCMS(o, dataItems) IN
            fetch' = [fetch EXCEPT ![f] =
                        IF r.threw
                        THEN [st |-> "threw", queried |-> TRUE, failed |-> TRUE,
                              items |-> <<>>, val |-> ""]
                        ELSE [st |-> "done", queried |-> TRUE,
                              failed |-> o \in CmsFailures,
                              items |-> r.items, val |-> Extract(f, r.items)]]
    /\ UNCHANGED <<body, apiKey, pc, handler, args, cmsLog, messages, candidate,
                   llmLog, llmOut, result, returned, err, responses, escaped>>

CmsComplete == CmsCompleteFrom(Stored)

\* a join that resolves with the first fetch that has resolved
JoinOnFirst ==
    /\ pc = "fetching"
    /\ \E f \in Planned(handler) : fetch[f].st = "done"
    /\ pc' = "prompt"
    /\ UNCHANGED <<body, apiKey, handler, args, fetch, cmsLog, messages, candidate,
                   llmLog, llmOut, result, returned, err, responses, escaped>>

\* await Promise.all([...]): rejects with the first fetch that rejected,
\* resolves once every fetch has resolved
Join ==
    /\ pc = "fetching"
    /\ IF \E f \in Planned(handler) : fetch[f].st = "threw"
       THEN /\ err' = "fetch failed"
            /\ pc' = "catch"
       ELSE /\ \A f \in Planned(handler) : fetch[f].st = "done"
            /\ pc' = "prompt"
            /\ err' = err
    /\ UNCHANGED <<body, apiKey, handler, args, fetch, cmsLog, messages, candidate,
                   llmLog, llmOut, result, returned, responses, escaped>>

\* the chat-completion request for models[i], or the analysis model
Request(h, i) ==
    [model |-> IF CallerOf(h) = "callAI" THEN models[i] ELSE ANALYSIS_MODEL,
     caller |-> CallerOf(h),
     temperature |-> CallParams(h).temperature,
     maxTokens |-> CallParams(h).maxTokens]

\* the context values the handler reads after the join
Context == [f \in Fetchers |-> IF fetch[f].st = "done" THEN fetch[f].val
                                ELSE EmptyDefault(f)]

\* the handler from the join to the first request of its caller: it builds
\* the messages, the caller checks the credential and sends its first request.
\* The fetchers' promises are not referenced after the join.
Prompt ==
    /\ pc = "prompt"
    /\ fetch' = [f \in Fetchers |-> IdleFetch]
    /\ LET e == PromptError(handler, args, apiKey) IN
       IF e # ""
       THEN /\ err' = e
            /\ pc' = "catch"
            /\ UNCHANGED <<messages, candidate, llmLog>>
       ELSE /\ messages' = BuildMessages(handler, args, Context)
            /\ IF ~apiKey
               THEN /\ err' = "No API key configured"
                    /\ pc' = "catch"
                    /\ UNCHANGED <<candidate, llmLog>>
               ELSE /\ candidate' = 1
                    /\ llmLog' = Append(llmLog, Request(handler, 1))
                    /\ pc' = "llm"
                    /\ err' = err
    /\ UNCHANGED <<body, apiKey, handler, args, cmsLog, llmOut, result,
                   returned, responses, escaped>>

\* the error callClaudeForAnalysis rethrows
AnalysisError(o) ==
    CASE o = "nonOk" -> "Claude API failed"
      [] o = "netErr" -> "fetch failed"
      [] OTHER -> "TypeError: Cannot read properties of undefined (reading '0')"

\* the request in flight ends.  callAI: a completion is returned, anything
\* else moves the loop to the next model or, after the last, throws.
\* callClaudeForAnalysis: a completion is returned, anything else is rethrown.
\* The handler then runs to its return.
LlmCompleteFrom(Completions) ==
    /\ pc = "llm"
    /\ \E o \in LlmOutcomes, c \in Completions :
         /\ o # "ok" => c = Null
         /\ llmOut' = Append(llmOut, [outcome |-> o, content |-> c])
         /\ IF Succeeds(o)
            THEN LET r == HandlerReturn(handler, c) IN
                 IF r.err # ""
                 THEN /\ err' = r.err
                      /\ pc' = "catch"
                      /\ UNCHANGED <<result, returned, candidate, llmLog>>
                 ELSE /\ result' = r.value
                      /\ returned' = TRUE
                      /\ pc' = "respond"
                      /\ UNCHANGED <<err, candidate, llmLog>>
            ELSE IF CallerOf(handler) = "callAI"
            THEN IF NextCandidate(candidate) # 0
                 THEN /\ candidate' = NextCandidate(candidate)
                      /\ llmLog' = Append(llmLog, Request(handler, NextCandidate(candidate)))
                      /\ UNCHANGED <<pc, err, result, returned>>
                 ELSE /\ err' = "All models failed"
                      /\ pc' = "catch"
                      /\ UNCHANGED <<result, returned, candidate, llmLog>>
            ELSE /\ err' = AnalysisError(o)
                 /\ pc' = "catch"
                 /\ UNCHANGED <<result, returned, candidate, llmLog>>
    /\ UNCHANGED <<body, apiKey, handler, args, fetch, cmsLog, messages, responses,
                   escaped>>

LlmComplete == LlmCompleteFrom(Contents)

\* lines 301-308: result.length, then res.json of the success envelope
Respond ==
    /\ pc = "respond"
    /\ IF result.t \in {"null", "undefined"}
       THEN /\ err' = "TypeError: Cannot read properties of null (reading 'length')"
            /\ pc' = "catch"
            /\ UNCHANGED responses
       ELSE /\ responses' = Append(responses,
                 [status |-> 200, error |-> "", details |-> "",
                  result |-> result, charsGenerated |-> JsLength(result)])
            /\ pc' = "done"
            /\ err' = err
    /\ UNCHANGED <<body, apiKey, handler, args, fetch, cmsLog, messages, candidate,
                   llmLog, llmOut, result, returned, escaped>>

\* `${req.body.action || 'Action'} failed`
ErrorLabel(a) == IF Falsy(a) THEN <<"Action", "failed">> ELSE a.v \o <<"failed">>

\* a catch block that logs the error and answers nothing
CatchLogsOnly ==
    /\ pc = "catch"
    /\ pc' = "done"
    /\ UNCHANGED <<body, apiKey, handler, args, fetch, cmsLog, messages, candidate,
                   llmLog, llmOut, result, returned, err, responses, escaped>>

\* lines 310-321: the catch block writes the 500 response; the argument of
\* the res.json that follows reads result and startTime, which are declared
\* inside the try block and out of scope here, so evaluating it throws
Catch ==
    /\ pc = "catch"
    /\ responses' = Append(responses,
         [status |-> 500, error |-> ErrorLabel(body.action), details |-> err,
          result |-> Undefined, charsGenerated |-> 0])
    /\ escaped' = "ReferenceError: result is not defined"
    /\ pc' = "done"
    /\ UNCHANGED <<body, apiKey, handler, args, fetch, cmsLog, messages, candidate,
                   llmLog, llmOut, result, returned, err>>

Next ==
    \/ Route
    \/ HandlerStart
    \/ CmsComplete
    \/ Join
    \/ Prompt
    \/ LlmComplete
    \/ Respond
    \/ Catch

Spec == Init /\ [][Next]_vars

(***************************************************************************)
(* Properties.                                                             *)
(***************************************************************************)
\* the request is being served by callAI
InCallAI == handler # "" /\ CallerOf(handler) = "callAI" /\ llmLog # <<>>

\* the route handler has caught an error or has finished
Ended == pc \in {"catch", "done"}

\* the attempt ended in a non-success status (line 49) or in an exception
\* caught by the loop (line 59): a rejected fetch, or a 2xx body that gave no
\* choices[0].message
AttemptFailed(i) == llmOut[i].outcome \in {"nonOk", "netErr", "okNoChoices"}

C2_AllModelsFailed ==
    /\ err = "All models failed" =>
         /\ apiKey
         /\ InCallAI
         /\ Len(llmLog) = Len(models)
         /\ Len(llmOut) = Len(models)
         /\ \A i \in 1..Len(models) : llmLog[i].model = models[i] /\ AttemptFailed(i)
    /\ (InCallAI /\ Len(llmOut) = Len(models) /\ \A i \in 1..Len(models) : AttemptFailed(i))
         => err = "All models failed"
    /\ (InCallAI /\ Ended /\ ~returned) => err = "All models failed"

\* C2 witness: all three models were asked, each failed, the call failed
C2_Exhausted ==
    /\ InCallAI
    /\ pc = "done"
    /\ err = "All models failed"
    /\ Len(llmLog) = 3
    /\ \A i \in 1..3 : AttemptFailed(i)

\* a 2xx response
SuccessStatus(i) == llmOut[i].outcome \in {"ok", "okNoChoices"}

\* C3 as stated: whenever an attempt of callAI gets a success-status
\* response, callAI returns at that attempt with its content and no later
\* model is asked.
C3_SuccessStatusWins ==
    InCallAI =>
      \A i \in 1..Len(llmOut) :
        SuccessStatus(i) =>
          /\ Len(llmLog) = i
          /\ returned
          /\ result = llmOut[i].content

\* C3 amended: whenever an attempt of callAI gets a success-status response
\* whose body yields choices[0].message.content, callAI returns at that
\* attempt with that content and no later model is asked.
C3_CompletionWins ==
    InCallAI =>
      \A i \in 1..Len(llmOut) :
        llmOut[i].outcome = "ok" =>
          /\ Len(llmLog) = i
          /\ returned
          /\ result = llmOut[i].content

\* C3 witness: the second model answered with a completion after the first
\* failed, and the third was never asked
C3_SecondWins ==
    /\ InCallAI
    /\ Len(llmOut) = 2
    /\ llmOut[1].outcome = "nonOk"
    /\ llmOut[2].outcome = "ok"
    /\ Len(llmLog) = 2
    /\ returned
    /\ pc = "done"

\* the input each action requires
RequiredInput(h, b) ==
    CASE h \in {"handleUnhinge", "handleUnleash"} -> b.chapterContent
      [] h \in {"handleNoMercy", "handleIntensify"} -> b.selectedText
      [] h = "handleInvoke" -> b.userPrompt
      [] h = "handleCharacterChat" -> b.userMessage
      [] h = "handleDevilPOV" -> b.previousChapter
      [] h = "handleTagGeneration" -> b.name
      [] OTHER -> b.text

ValidationMessages ==
    {"No content to unhinge", "No content to continue from",
     "No text selected for rewrite", "No text selected to intensify",
     "No message provided", "No chapter provided", "No text provided for critique",
     "No name provided for tag generation", "No text provided for analysis"}

\* the request carries what its action requires
ValidRequest ==
    /\ handler # ""
    /\ ~NoText(RequiredInput(handler, args))
    /\ handler = "handleAICritic" => args.persona.t = "string"

\* the one response of a failed request carries this error
FailedWith(e) ==
    /\ Len(responses) = 1
    /\ responses[1].status = 500
    /\ responses[1].details = e

\* C4: without a credential, a request with valid input issues no outbound
\* request, neither to the CMS nor to the model, and ends in a failed
\* response carrying "No API key configured".
C4_NoKeyFailsFast ==
    (~apiKey /\ ValidRequest) =>
      /\ cmsLog = <<>>
      /\ llmLog = <<>>
      /\ pc = "done" => FailedWith("No API key configured")

\* C5: a request whose required input is missing or blank fails with the
\* handler's validation error before any outbound request: once the handler
\* has started, the request has ended in that error, and no CMS query and no
\* model request was issued.
C5_ValidatesFirst ==
    (handler # "" /\ pc # "handler" /\ NoText(RequiredInput(handler, args))) =>
      /\ Ended
      /\ err \in ValidationMessages
      /\ cmsLog = <<>>
      /\ llmLog = <<>>
      /\ pc = "done" => FailedWith(err)

\* C6: a request gets at most one response at any time and exactly one once
\* the route handler has finished: the 200 success envelope when nothing
\* threw between the start of the try block and res.json, and otherwise one
\* 500 response whose details is the message of the error thrown.
C6_OneResponse ==
    /\ Len(responses) <= 1
    /\ pc # "done" => responses = <<>>
    /\ pc = "done" =>
         /\ Len(responses) = 1
         /\ err = "" =>
              /\ returned
              /\ responses[1].status = 200
              /\ responses[1].result = result
         /\ err # "" =>
              /\ responses[1].status = 500
              /\ responses[1].details = err
              /\ responses[1].error = ErrorLabel(body.action)

\* C6 witness: a handler threw and the request was answered once, with 500
C6_HandlerThrew ==
    /\ pc = "done"
    /\ handler = "handleNoMercy"
    /\ err = "No text selected for rewrite"
    /\ FailedWith("No text selected for rewrite")

\* the tag arguments the fetchers are to treat as absent
EmptyTag(x) ==
    \/ x.t \in {"undefined", "null"}
    \/ x.t \in {"string", "array"} /\ x.v = <<>>

Queried(f) == \E i \in 1..Len(cmsLog) : cmsLog[i].collection = Collection(f)

\* C7: a fetcher called with an absent tag argument, an empty string or an
\* empty list has returned its empty default by the time the handler waits
\* for the join, and has issued no CMS query.
C7_EmptyTagNoQuery ==
    pc = "fetching" =>
      \A f \in Planned(handler) :
        EmptyTag(TagArg(handler, args, f)) =>
          /\ fetch[f].st = "done"
          /\ ~fetch[f].queried
          /\ fetch[f].val = EmptyDefault(f)
          /\ ~Queried(f)

\* the context of the handler with the context of every failed query absent
ContextWithoutFailed ==
    [f \in Fetchers |-> IF fetch[f].failed THEN EmptyDefault(f) ELSE Context[f]]

\* C8, in every state: no fetch ever rejects; a query that failed left its
\* fetcher with the empty default; no collection is queried twice in a
\* request, so nothing is retried; and the route never catches an error
\* after a handler started its fetches and before it reached the model call.
C8_State ==
    handler \in ContextHandlers =>
      /\ \A f \in Fetchers : fetch[f].st # "threw"
      /\ \A f \in Fetchers :
           (fetch[f].st = "done" /\ fetch[f].failed) =>
              /\ fetch[f].queried
              /\ fetch[f].val = EmptyDefault(f)
      /\ \A i, j \in 1..Len(cmsLog) :
           i # j => cmsLog[i].collection # cmsLog[j].collection
      /\ (pc = "catch" /\ cmsLog # <<>> /\ llmLog = <<>>) => err = "No API key configured"

\* C8, in every step: after the join the handler calls the model, and the
\* messages it passes are the ones built with the context of every failed
\* query absent.
C8_Step ==
    (pc = "prompt" /\ handler \in ContextHandlers /\ apiKey) =>
      /\ pc' = "llm"
      /\ Len(llmLog') = 1
      /\ messages' = BuildMessages(handler, args, ContextWithoutFailed)

\* C8: a failing CMS lookup never fails the request.
C8_CmsFailureAbsorbed == [](C8_State) /\ [][C8_Step]_vars

\* C8 witness: all four queries of a devilPOV request failed and the join
\* has completed with the four empty defaults
C8_AllQueriesFailed ==
    /\ handler = "handleDevilPOV"
    /\ pc = "prompt"
    /\ apiKey
    /\ Len(cmsLog) = 4
    /\ \A f \in Fetchers : fetch[f].st = "done" /\ fetch[f].failed
    /\ Context = [f \in Fetchers |-> EmptyDefault(f)]

\* the handler the claim gives each named action
OwnHandler(n) ==
    CASE n = "unhinge" -> "handleUnhinge"
      [] n = "unleash" -> "handleUnleash"
      [] n = "noMercy" -> "handleNoMercy"
      [] n = "invoke" -> "handleInvoke"
      [] n = "intensify" -> "handleIntensify"
      [] n = "characterChat" -> "handleCharacterChat"
      [] n = "devilPOV" -> "handleDevilPOV"
      [] n = "overuse_scanner" -> "handleOveruseScanner"
      [] n = "pacing_analyzer" -> "handlePacingAnalyzer"
      [] n = "sentence_mechanics" -> "handleSentenceMechanics"
      [] n = "dialogue_critic" -> "handleDialogueCritic"
      [] n = "ai_critic" -> "handleAICritic"
      [] n = "structural_check" -> "handleStructuralCheck"
      [] n = "tag_generation" -> "handleTagGeneration"

IsNamed(a) == a.t = "string" /\ Len(a.v) = 1 /\ a.v[1] \in NamedActions

AnalysisActions ==
    {"overuse_scanner", "pacing_analyzer", "sentence_mechanics", "dialogue_critic",
     "structural_check", "ai_critic"}

\* C10: the requests of the analysis actions, and of no other action, go
\* through callClaudeForAnalysis; such a request sends at most one model
\* request, to the analysis model; and when that one attempt does not give a
\* completion, the request has failed with the caller's error and without a
\* second model request.
C10_AnalysisSingleAttempt ==
    llmLog # <<>> =>
      /\ (llmLog[1].caller = "callClaudeForAnalysis")
           <=> (IsNamed(body.action) /\ body.action.v[1] \in AnalysisActions)
      /\ llmLog[1].caller = "callClaudeForAnalysis" =>
           /\ Len(llmLog) = 1
           /\ llmLog[1].model = ANALYSIS_MODEL
           /\ (Len(llmOut) = 1 /\ llmOut[1].outcome # "ok") =>
                /\ Ended
                /\ ~returned
                /\ err = AnalysisError(llmOut[1].outcome)
                /\ pc = "done" => FailedWith(err)

\* C10 witness: the one attempt of an analysis request ended in a
\* non-success status and the request failed after a single model request
C10_AnalysisFailed ==
    /\ handler = "handleOveruseScanner"
    /\ Len(llmLog) = 1
    /\ llmOut = <<[outcome |-> "nonOk", content |-> Null]>>
    /\ pc = "done"
    /\ FailedWith("Claude API failed")

(***************************************************************************)
(* The analysis handlers on completions that carry marker arrays.          *)
(***************************************************************************)
\* the words a marker's fields are written with; a field may quote a fence
MarkerWords == {"m", "FENCE"}

Markers == UNION {[1..n -> MarkerWords] : n \in 1..MaxFields}

MarkerArrays == UNION {[1..n -> Markers] : n \in 0..MaxMarkers}

\* a JSON text inside a markdown fence
Fenced(text) == <<"FENCE_JSON">> \o text \o <<"FENCE">>

\* message.content of a completion: a marker array, fenced or bare; texts
\* that are no JSON; no content at all
ParseCompletions ==
    {Str(Fenced(Stringify(a))) : a \in MarkerArrays}
      \cup {Str(Stringify(a)) : a \in MarkerArrays}
      \cup {Str(<<"prose">>), Str(Fenced(<<"[", "{", "m">>)), Str(Fenced(<<>>)), Null}

\* an analysis request with text, a known persona and the credential set
ParseRequests ==
    {[EmptyBody EXCEPT !.action = Word(a), !.text = Str(<<"a">>),
                       !.persona = IF a = "ai_critic" THEN Word("market_hawk")
                                   ELSE Undefined] : a \in AnalysisActions}

InitParse == Arrived(ParseRequests, {TRUE})

NextParse ==
    \/ Route
    \/ HandlerStart
    \/ Prompt
    \/ LlmCompleteFrom(ParseCompletions)
    \/ Respond
    \/ Catch

SpecParse == InitParse /\ [][NextParse]_vars

\* the errors of a failed generation
GenerationErrors ==
    {AnalysisError(o) : o \in LlmOutcomes} \cup {"No API key configured", "All models failed"}

\* the one response of the request is the success envelope carrying r
RepliedWith(r) ==
    /\ Len(responses) = 1
    /\ responses[1].status = 200
    /\ responses[1].result = r

IsFenced(text) ==
    /\ Len(text) >= 2
    /\ text[1] \in {"FENCE_JSON", "FENCE"}
    /\ text[Len(text)] = "FENCE"

\* C11: when the completion of an analysis handler is a valid JSON array of
\* markers inside a markdown fence, the handler returns exactly that array:
\* the same markers in the same order, every field as it was written, and the
\* route answers with it; when the completion is no valid JSON once the
\* fences are stripped, the handler does not return and the request fails
\* with the handler's parse error, which is none of the generation errors.
C11_FencedArrayReturned ==
    (/\ handler \in AnalysisHandlers
     /\ llmOut # <<>>
     /\ llmOut[1].outcome = "ok"
     /\ llmOut[1].content.t = "string") =>
      LET text == llmOut[1].content.v
          inner == SubSeq(text, 2, Len(text) - 1)
      IN  /\ (IsFenced(text) /\ JsonParse(inner).ok /\ JsonParse(inner).value.t = "array") =>
                /\ returned
                /\ result = JsonParse(inner).value
                /\ pc = "done" => RepliedWith(JsonParse(inner).value)
          /\ ~JsonParse(StripFences(text)).ok =>
                /\ ~returned
                /\ err = ParseErrorOf(handler)
                /\ err \notin GenerationErrors
                /\ pc = "done" => FailedWith(err)

(***************************************************************************)
(* Character chat with the history of the current session.                 *)
(***************************************************************************)
\* a session history of n messages, numbered in order
History(n) ==
    [i \in 1..n |-> Message(IF i % 2 = 1 THEN "user" ELSE "assistant",
                            <<"m", ToString(i)>>)]

\* the chatHistory field: absent, null, or a history
HistoryValues == {Undefined, Null} \cup {Arr(History(n)) : n \in 0..MaxHistory}

ChatRequests ==
    {[EmptyBody EXCEPT !.action = Word("characterChat"),
                       !.userMessage = Str(<<"a">>),
                       !.chatHistory = h] : h \in HistoryValues}

InitChat == Arrived(ChatRequests, {TRUE})

NextChat ==
    \/ Route
    \/ HandlerStart
    \/ Join
    \/ Prompt
    \/ LlmCompleteFrom({Str(<<"prose">>), Null})
    \/ Respond
    \/ Catch

SpecChat == InitChat /\ [][NextChat]_vars

\* the history a request carries, none when the field is absent
HistoryOf(b) == IF Falsy(b.chatHistory) THEN <<>> ELSE b.chatHistory.v

LengthOf(r) == Len(r.v)

\* C13: when the handler of a request has returned, the route answers with
\* the success envelope: status success, the handler's return value as
\* result, and the length of that value as charsGenerated; this for every
\* action, so a tag_generation request with a name and the credential set,
\* none of whose model requests failed, is answered with that envelope too.
C13_SuccessEnvelope ==
    /\ (returned /\ pc = "done") =>
          /\ RepliedWith(result)
          /\ responses[1].charsGenerated = LengthOf(result)
    /\ (/\ handler = "handleTagGeneration"
        /\ ~NoText(args.name)
        /\ apiKey
        /\ pc = "done"
        /\ \A i \in 1..Len(llmOut) : llmOut[i].outcome = "ok") =>
          /\ Len(responses) = 1
          /\ responses[1].status = 200

(***************************************************************************)
(* Tag generation.                                                         *)
(***************************************************************************)
\* C14: a tag_generation request with a name, a type of character or
\* story and the credential set sends exactly one model request, and when
\* that request gives a completion the handler returns the tag made of the
\* trimmed content.
C14_OneRequestOneTag ==
    (/\ handler = "handleTagGeneration"
     /\ ~NoText(args.name)
     /\ args.type \in {Word("character"), Word("story")}
     /\ apiKey
     /\ pc = "done") =>
      /\ Len(llmLog) = 1
      /\ (llmOut # <<>> /\ llmOut[1].outcome = "ok" /\ llmOut[1].content.t = "string") =>
           /\ returned
           /\ result = Str(Trim(llmOut[1].content.v))

(***************************************************************************)
(* The critic's persona.                                                   *)
(***************************************************************************)
\* C15: an ai_critic request with text whose persona is none of the four
\* keys, an unknown word or no persona at all, is not stopped by the handler:
\* with the credential set it reaches the model call, and the prompt it
\* sends carries the cold_editor instructions.
C15_FallbackPersona ==
    (/\ handler = "handleAICritic"
     /\ ~NoText(args.text)
     /\ ~(args.persona.t = "string" /\ Len(args.persona.v) = 1
            /\ args.persona.v[1] \in PersonaKeys)
     /\ apiKey
     /\ Ended) =>
      /\ llmLog # <<>>
      /\ messages = << Message("user", <<"cold_editor">> \o args.text.v) >>

(***************************************************************************)
(* The chat history fetcher on records of every shape.                     *)
(***************************************************************************)
\* the message logs of the stored sessions
Logs == {<<>>, << <<"user", "hi">> >>, << <<"user", "hi">>, <<"bot", "yo">> >>}

\* texts that are no JSON
Malformed == {<<>>, <<"oops">>, <<"[", "{", "user", "hi">>}

\* chatBox of a record: a serialized log, a log stored as an array, a text
\* that does not parse, the JSON text null, or nothing
ChatBoxes ==
    {Str(Stringify(l)) : l \in Logs} \cup {Arr(l) : l \in Logs \ {<<>>}}
      \cup {Str(m) : m \in Malformed} \cup {Str(<<"null">>), Undefined}

ChatRecords == {[chatBox |-> c] : c \in ChatBoxes}

\* the record lists a query finds: chat records of every shape, and for the
\* other collections the one record of the store
StoredSessions ==
    [Stored EXCEPT !["ChatWithCharacters"] =
       UNION {[1..n -> ChatRecords] : n \in 1..MaxSessions}]

\* a devilPOV request for a character
HistoryRequests ==
    {[EmptyBody EXCEPT !.previousChapter = Str(<<"a">>),
                       !.characterTags = Arr(<<"@A">>)]}

InitHistory == Arrived(HistoryRequests, {TRUE})

NextHistory ==
    \/ Route
    \/ HandlerStart
    \/ CmsCompleteFrom(StoredSessions)
    \/ Join
    \/ Prompt
    \/ LlmCompleteFrom({Str(<<"prose">>), Null})
    \/ Respond
    \/ Catch

SpecHistory == InitHistory /\ [][NextHistory]_vars

\* chatBox does not decode: a string that is no JSON
IsMalformed(chatBox) == chatBox.t = "string" /\ chatBox.v \in Malformed

\* C16: getChatHistory decodes record by record.  Once its query has given
\* records the fetch has resolved, never rejected, with one session per
\* record in the order of the records: a record whose log does not parse
\* gives {messages: []}, a record whose log is a serialized list of messages
\* gives those messages, and so does a record that stores the list itself.
C16_DecodedPerRecord ==
    LET f == fetch["getChatHistory"] IN
    /\ f.st # "threw"
    /\ (f.st = "done" /\ f.items # <<>>) =>
         /\ Len(f.val) = Len(f.items)
         /\ \A i \in 1..Len(f.items) :
              LET chatBox == f.items[i].chatBox IN
              /\ IsMalformed(chatBox) => f.val[i] = [messages |-> <<>>]
              /\ \A l \in Logs :
                   (chatBox = Str(Stringify(l)) \/ chatBox = Arr(l)) =>
                     f.val[i] = [messages |-> l]

\* C16 witness: a record that does not parse stood between two that do, and
\* only its session came back empty
C16_OneBadRecord ==
    LET f == fetch["getChatHistory"]
        good == << <<"user", "hi">>, <<"bot", "yo">> >>
    IN  /\ f.st = "done"
        /\ f.items = << [chatBox |-> Str(Stringify(good))],
                        [chatBox |-> Str(<<"[", "{", "user", "hi">>)],
                        [chatBox |-> Arr(good)] >>
        /\ f.val = << [messages |-> good], [messages |-> <<>>], [messages |-> good] >>

(***************************************************************************)
(* The chapter fetcher on chapters of every length.                        *)
(***************************************************************************)
\* a chapter of n characters, each marked with its position
Body(n) == [i \in 1..n |-> ToString(i)]

\* the lengths of the stored chapters: around 0, around the cut, and long
BodyLengths ==
    {0, 1, ChapterLimit - 1, ChapterLimit, ChapterLimit + 1, MaxBody}

\* a chapter record: title and content, either of which may be missing
ChapterRecords ==
    {[title |-> Str(<<"T">>), chapterContent |-> Str(Body(n))] : n \in BodyLengths}
      \cup {[title |-> Str(<<"T">>), chapterContent |-> Undefined],
            [title |-> Undefined, chapterContent |-> Str(Body(MaxBody))]}

StoredChapters ==
    [Stored EXCEPT !["BackupChapters"] =
       UNION {[1..n -> ChapterRecords] : n \in 1..MaxChapters}]

\* a devilPOV request for a story
ChapterRequests ==
    {[EmptyBody EXCEPT !.previousChapter = Str(<<"a">>),
                       !.storyTags = Arr(<<"@A">>)]}

InitChapters == Arrived(ChapterRequests, {TRUE})

NextChapters ==
    \/ Route
    \/ HandlerStart
    \/ CmsCompleteFrom(StoredChapters)
    \/ Join
    \/ Prompt
    \/ LlmCompleteFrom({Str(<<"prose">>), Null})
    \/ Respond
    \/ Catch

SpecChapters == InitChapters /\ [][NextChapters]_vars

\* the characters of a stored chapter, none when it has no content
StoredBody(item) ==
    IF item.chapterContent.t = "string" THEN item.chapterContent.v ELSE <<>>

\* C17: the content of every chapter getRelatedChapters returns is the first
\* min(L, 1500) characters of the stored chapter of L characters: a longer
\* chapter is cut to exactly 1500 characters, a shorter one is whole, and no
\* content is longer than 1500.
C17_FirstFifteenHundred ==
    LET f == fetch["getRelatedChapters"] IN
    (f.st = "done" /\ f.items # <<>>) =>
      /\ Len(f.val) = Len(f.items)
      /\ \A i \in 1..Len(f.items) :
           LET stored == StoredBody(f.items[i])
               content == f.val[i].content
           IN  /\ Len(content) = Min(Len(stored), ChapterLimit)
               /\ Len(content) <= ChapterLimit
               /\ \A j \in 1..Len(content) : content[j] = stored[j]

\* C17 witness: a chapter of 1501 characters came back as its first 1500,
\* beside a chapter of 1499 characters that came back whole
C17_CutAtLimit ==
    LET f == fetch["getRelatedChapters"] IN
    /\ f.st = "done"
    /\ Len(f.items) = 2
    /\ Len(StoredBody(f.items[1])) = ChapterLimit + 1
    /\ f.val[1].content = Body(ChapterLimit)
    /\ Len(StoredBody(f.items[2])) = ChapterLimit - 1
    /\ f.val[2].content = StoredBody(f.items[2])

(***************************************************************************)
(* The context fetches of a request run concurrently.                      *)
(***************************************************************************)
\* the context a handler reads, fetcher by fetcher, whatever the order in
\* which the fetches completed
ContextByFetcher ==
    [f \in Fetchers |-> IF f \in Planned(handler) THEN fetch[f].val
                        ELSE EmptyDefault(f)]

\* C18, in every state: while a handler waits for its context, every fetch
\* of its plan has been started, every query of the request has been sent,
\* and no model request has been sent.
C18_State ==
    (handler \in ContextHandlers /\ pc = "fetching") =>
      /\ \A f \in Planned(handler) : fetch[f].st \in {"pending", "done"}
      /\ Len(cmsLog) = Cardinality({f \in Planned(handler) : fetch[f].queried})
      /\ llmLog = <<>>

\* C18, in every step: a CMS query is sent only while no query of the
\* request has completed; and the first model request of a context handler
\* is sent only when every fetch of its plan has completed, with the
\* messages built from what each fetcher returned.
C18_Step ==
    /\ cmsLog' # cmsLog =>
         \A f \in Fetchers : ~(fetch[f].queried /\ fetch[f].st = "done")
    /\ (handler \in ContextHandlers /\ llmLog = <<>> /\ llmLog' # <<>>) =>
         /\ \A f \in Planned(handler) : fetch[f].st = "done"
         /\ messages' = BuildMessages(handler, args, ContextByFetcher)

\* C18: the context fetches of unleash, invoke, characterChat and devilPOV
\* are all started before any of them completes, their queries complete in
\* any order, no model request is sent before all of them have completed,
\* and the prompt is built from the fetchers' results, not from the order in
\* which they arrived.
C18_FetchesJoined == [](C18_State) /\ [][C18_Step]_vars

\* C18 witness: in devilPOV the query started last has completed while the
\* query started first is still pending
C18_LastFinishedFirst ==
    /\ handler = "handleDevilPOV"
    /\ pc = "fetching"
    /\ Len(cmsLog) = 4
    /\ fetch["getCatalystIntel"].st = "done"
    /\ fetch["getCatalystIntel"].queried
    /\ fetch["getCharacterContext"].st = "pending"

(***************************************************************************)
(* The end of the error path.                                              *)
(***************************************************************************)
\* C19: once a failed request has been answered with the 500 envelope and
\* the route handler has ended, no error has left the catch block.
C19_ErrorPathCompletes ==
    (/\ pc = "done"
     /\ Len(responses) >= 1
     /\ responses[1].status = 500) => escaped = ""

====
